---- MODULE Spec2Model ----
(***************************************************************************)
(* A model of the query-result hooks of the frontend (useQueryResults,     *)
(* useUnderlyingDataResults, useChartAndResults, getQueryPaginatedResults) *)
(* and of the backend GoogleDriveClient.                                   *)
(*                                                                         *)
(* Spec      : one of the three hooks is mounted and driven by its caller, *)
(*             the HTTP server and the query library.                      *)
(* SpecDrive : one GoogleDriveClient serving its public operations against *)
(*             the spreadsheet provider.                                   *)
(***************************************************************************)
EXTENDS Integers, Sequences, FiniteSets, TLC

\* JavaScript undefined / null of an optional string, and truthiness of a string.
Undefined == "undefined"
Truthy(s) == s \notin {Undefined, ""}

(***************************************************************************)
(* Bounds of the model.                                                    *)
(***************************************************************************)
MaxPages == 3        \* longest chain of pages the server answers a query with
MaxTriggers == 2     \* times the caller (re)starts a query of a hook
MaxZoomChanges == 2  \* times the dashboard's date-zoom granularity is changed

VARIABLES
    \* ---- the mounted hook and its useQuery observer
    hook,            \* which hook is mounted
    flag,            \* useFeatureFlagEnabled(FeatureFlags.QueryPagination)
    data,            \* useQueryResults: QueryResultsProps | null, as <<>> or <<props>>
    status,          \* useQuery result status of the hook
    resultData,      \* useQuery result.data, as <<>> or <<ApiQueryResults>>
    resultError,     \* useQuery result.error, "none" or the error's name
    failureCount,    \* consecutive failures of the running fetch
    fetchRuns,       \* invocations of a queryFn so far
    triggers,        \* fetches started by a trigger (mount, new key)
    pending,         \* the queryFn's promise: "none", "http" or "rejected"
    inflight,        \* the HTTP request awaited, as <<>> or <<request>>
    httpLog,         \* HTTP requests issued by the running queryFn
    served,          \* pages answered by the server to the running queryFn
    firstPage,       \* getQueryPaginatedResults: firstPage, as <<>> or <<page>>
    currentPage,     \* getQueryPaginatedResults: currentPage
    allRows,         \* getQueryPaginatedResults: allRows
    errorChannel,    \* errors handed to setErrorResponse (useQueryError)
    effectPending,   \* the "On Error" effect has a changed result.error to see
    \* ---- useChartAndResults on a dashboard
    dashboardUuid,   \* the dashboard's uuid, or "null"
    granularity,     \* the dashboard's date-zoom granularity, or undefined
    chartHasDate,    \* server: whether a chart's metric query has a date dimension
    chartsWithDateZoomApplied,  \* dashboard context state: Set<string> | undefined
    queryCache,      \* the query client's cache: query key -> query state
    needsRender,     \* per chart tile: its hook is due to render
    observed,        \* per chart tile: the key and result of its last render
    rendered,        \* the last render of the hook: what it read and computed
    zoomChanges,     \* changes of the granularity so far
    \* ---- GoogleDriveClient and the spreadsheet provider
    config,          \* lightdashConfig.auth.google
    isEnabled,       \* GoogleDriveClient.isEnabled
    op,              \* the public operation being served, and its arguments
    dpc,             \* where the operation stands: the provider call it awaits
    sanitizedTabName,\* appendCsvToSheet: sanitizedTabName, as <<>> or <<title>>
    calls,           \* provider calls issued by the operation, in order
    resps,           \* the provider's answers to them, in order
    outcome,         \* how the operation ended: "ok" or the error thrown
    logged,          \* messages the operation handed to Logger.error
    returned,        \* the value the operation returned, as <<>> or <<value>>
    \* ---- GoogleDriveClient.formatCell
    fpc,             \* "idle", "call" (arguments bound) or "returned"
    cellValue,       \* formatCell: value
    cellItem,        \* formatCell: item
    cellOutput,      \* what formatCell returned
    \* ---- the SimpleTable component
    tpc,             \* "idle", "render" (context bound) or "rendered"
    visualizationContext,  \* what useVisualizationContext() gives the render
    element          \* the element the render returned

hookVars == <<hook, flag, data, status, resultData, resultError, failureCount,
              fetchRuns, triggers, pending, inflight, httpLog, served,
              firstPage, currentPage, allRows, errorChannel, effectPending>>

chartVars == <<dashboardUuid, granularity, chartHasDate,
               chartsWithDateZoomApplied, queryCache, needsRender, observed,
               rendered, zoomChanges>>

driveVars == <<config, isEnabled, op, dpc, sanitizedTabName, calls, resps,
               outcome, logged, returned>>

pureVars == <<fpc, cellValue, cellItem, cellOutput,
              tpc, visualizationContext, element>>

vars == <<hookVars, chartVars, driveVars, pureVars>>

(***************************************************************************)
(* Inputs.                                                                 *)
(***************************************************************************)
Hooks == {"useQueryResults", "useUnderlyingDataResults", "useChartAndResults"}

\* Rows a single page can carry: empty, one row, two rows in either order and
\* a repeated row (so that reordering and deduplication are observable).
PageRowChoices == {<<>>, <<"r1">>, <<"r1", "r2">>, <<"r2", "r1">>, <<"r1", "r1">>}

QueryUuids == {"q1", "q2"}

\* The chart tiles of the dashboard, and the date granularities of date zoom.
Charts == {"c1", "c2"}
Granularities == {"DAY", "MONTH"}

\* QueryResultsProps (lines 27-36); the fields the query function reads.
QueryResultsProps ==
    [projectUuid : {"p1"}, tableId : {"t1"},
     query : {Undefined, "mq"},
     chartUuid : {Undefined, "", "chart1"},
     chartVersionUuid : {Undefined, "v1"},
     dateZoomGranularity : {Undefined}]

\* An HTTP request handed to lightdashApi.
Request(endpoint, chartUuid, versionUuid, query, queryUuid, page) ==
    [endpoint |-> endpoint, chartUuid |-> chartUuid, versionUuid |-> versionUuid,
     query |-> query, queryUuid |-> queryUuid, page |-> page]

(***************************************************************************)
(* The HTTP server, as the hooks see it.                                   *)
(***************************************************************************)
\* Pages the server may answer a request of the paginated endpoint with: the
\* first request (no page token) is answered with page 1 under a query uuid
\* of the server's choice, a follow-up with the page it asks for; the server
\* decides whether a next page exists.
ServerPages(req) ==
    LET p == IF req.page = 0 THEN 1 ELSE req.page
    IN  {[queryUuid |-> u, page |-> p, nextPage |-> n, rows |-> r,
          fields |-> <<"fields", p>>, metricQuery |-> <<"metricQuery", p>>] :
            u \in (IF req.page = 0 THEN QueryUuids ELSE {req.queryUuid}),
            n \in {0} \cup (IF p < MaxPages THEN {p + 1} ELSE {}),
            r \in PageRowChoices}

\* ApiQueryResults of the single-shot endpoints.
ServerResults ==
    {[queryUuid |-> Undefined, metricQuery |-> <<"metricQuery", 1>>,
      cacheHit |-> h, rows |-> r, fields |-> <<"fields", 1>>] :
        h \in BOOLEAN, r \in PageRowChoices}

(***************************************************************************)
(* useQueryResults, useUnderlyingDataResults and getQueryPaginatedResults. *)
(***************************************************************************)
\* A hook that lets the library retry three times.
RetryOptionRetrying(h) ==
    CASE h = "useUnderlyingDataResults" -> 0
      [] h = "useChartAndResults" -> 3
      [] OTHER -> -1

\* The retry option each hook passes to useQuery (a count; 0 is retry: false,
\* -1 is "not given").
RetryOption(h) ==
    CASE h = "useUnderlyingDataResults" -> 0
      [] h = "useChartAndResults" -> 0
      [] OTHER -> -1

\* The QueryClient's defaultOptions.queries.retry.  The client is created by
\* the application's provider; the design's cache policy is "no retry on
\* failure".
DefaultRetry == 0

Retries(h) == IF RetryOption(h) = -1 THEN DefaultRetry ELSE RetryOption(h)

\* The query library re-invokes a failed queryFn while its failure count is
\* below the retry count.
ShouldRetry(h, failures) == failures < Retries(h)

\* enabled option of useQuery.
Enabled(h, d) == IF h = "useQueryResults" THEN d # <<>> ELSE TRUE

\* A dispatcher that takes a chart version alone for a chart reference.
queryFnVersionAlone(d, queryPaginationEnabled) ==
    IF d # <<>> /\ Truthy(d[1].chartVersionUuid)
    THEN "getChartVersionResults"
    ELSE IF d # <<>> /\ Truthy(d[1].chartUuid)
    THEN "getChartResults"
    ELSE IF d # <<>> /\ Truthy(d[1].query)
    THEN IF queryPaginationEnabled THEN "getQueryPaginatedResults"
                                   ELSE "getQueryResults"
    ELSE "ParameterError"

\* A query function that looks at the query before the chart.
queryFnQueryFirst(d, queryPaginationEnabled) ==
    IF d # <<>> /\ Truthy(d[1].query)
    THEN IF queryPaginationEnabled THEN "getQueryPaginatedResults"
                                   ELSE "getQueryResults"
    ELSE IF d # <<>> /\ Truthy(d[1].chartUuid) /\ Truthy(d[1].chartVersionUuid)
    THEN "getChartVersionResults"
    ELSE IF d # <<>> /\ Truthy(d[1].chartUuid)
    THEN "getChartResults"
    ELSE "ParameterError"

\* The queryFn of useQueryResults: the retrieval path it takes.
queryFn(d, queryPaginationEnabled) ==
    IF d # <<>> /\ Truthy(d[1].chartUuid) /\ Truthy(d[1].chartVersionUuid)
    THEN "getChartVersionResults"
    ELSE IF d # <<>> /\ Truthy(d[1].chartUuid)
    THEN "getChartResults"
    ELSE IF d # <<>> /\ Truthy(d[1].query)
    THEN IF queryPaginationEnabled THEN "getQueryPaginatedResults"
                                   ELSE "getQueryResults"
    ELSE "ParameterError"

\* The retrieval path of the mounted hook's queryFn.
HookPath(h, d, queryPaginationEnabled) ==
    IF h = "useUnderlyingDataResults" THEN "getUnderlyingDataResults"
    ELSE queryFn(d, queryPaginationEnabled)

\* The request each retrieval path hands to lightdashApi first.
FirstRequest(path, d) ==
    CASE path = "getChartVersionResults" ->
            Request("/saved/{chartUuid}/version/{versionUuid}/results",
                    d[1].chartUuid, d[1].chartVersionUuid, Undefined, Undefined, 0)
      [] path = "getChartResults" ->
            Request("/saved/{chartUuid}/results",
                    d[1].chartUuid, Undefined, Undefined, Undefined, 0)
      [] path = "getQueryResults" ->
            Request("/projects/{projectUuid}/explores/{tableId}/runQuery",
                    Undefined, Undefined, d[1].query, Undefined, 0)
      [] path = "getUnderlyingDataResults" ->
            Request("/projects/{projectUuid}/explores/{tableId}/runUnderlyingDataQuery",
                    Undefined, Undefined, d[1].query, Undefined, 0)
      [] path = "getQueryPaginatedResults" ->
            Request("/projects/{projectUuid}/query",
                    Undefined, Undefined, d[1].query, Undefined, 0)

\* A follow-up request that asks for the page after the first one, always.
NextPageRequestFromFirst(first, current) ==
    Request("/projects/{projectUuid}/query", Undefined, Undefined, Undefined,
            first.queryUuid, first.nextPage)

\* The follow-up request of the pagination loop (lines 279-287).
NextPageRequest(first, current) ==
    Request("/projects/{projectUuid}/query", Undefined, Undefined, Undefined,
            first.queryUuid, current.nextPage)

\* A loop that keeps the rows of the page just received only.
ConcatRowsLastPage(rows, page) == page.rows

\* allRows = allRows.concat(currentPage.rows)
ConcatRows(rows, page) == rows \o page.rows

\* The loop condition: while (currentPage.nextPage)
HasNextPage(page) == page.nextPage # 0

\* The value getQueryPaginatedResults returns (lines 290-299).
PaginatedResult(first, rows) ==
    [queryUuid |-> first.queryUuid, metricQuery |-> first.metricQuery,
     cacheHit |-> FALSE, rows |-> rows, fields |-> first.fields]

\* The queryFn is invoked with props d: it either issues its first HTTP
\* request or returns a rejected promise.
InvokeQueryFn(d) ==
    LET path == HookPath(hook, d, flag)
    IN  /\ fetchRuns' = fetchRuns + 1
        /\ served' = <<>>
        /\ firstPage' = <<>>
        /\ currentPage' = <<>>
        /\ allRows' = <<>>
        /\ IF path = "ParameterError"
           THEN /\ pending' = "rejected"
                /\ inflight' = <<>>
                /\ httpLog' = <<>>
           ELSE /\ pending' = "http"
                /\ inflight' = <<FirstRequest(path, d)>>
                /\ httpLog' = <<FirstRequest(path, d)>>

\* The caller gives the hook new props (mount, or a new cache key): the query
\* of the new key starts without data, and runs if it is enabled.
Trigger(d) ==
    /\ hook \in {"useQueryResults", "useUnderlyingDataResults"}
    /\ status # "loading"
    /\ ~effectPending
    /\ triggers < MaxTriggers
    /\ hook = "useUnderlyingDataResults" =>
            d # <<>> /\ d[1].query # Undefined /\ d[1].chartUuid = Undefined
                     /\ d[1].chartVersionUuid = Undefined
    /\ data' = d
    /\ resultData' = <<>>
    /\ resultError' = "none"
    /\ failureCount' = 0
    /\ IF Enabled(hook, d)
       THEN /\ triggers' = triggers + 1
            /\ status' = "loading"
            /\ InvokeQueryFn(d)
       ELSE /\ status' = "idle"
            /\ UNCHANGED <<triggers, fetchRuns, pending, inflight, httpLog,
                           served, firstPage, currentPage, allRows>>
    /\ UNCHANGED <<hook, flag, errorChannel, effectPending>>
    /\ UNCHANGED chartVars
    /\ UNCHANGED <<driveVars, pureVars>>

\* The queryFn's promise rejected with err: the query library retries it if
\* the retry option says so, and else exposes the error in the result.
Fail(err) ==
    IF ShouldRetry(hook, failureCount)
    THEN /\ failureCount' = failureCount + 1
         /\ InvokeQueryFn(data)
         /\ UNCHANGED <<status, resultData, resultError, effectPending>>
    ELSE /\ failureCount' = failureCount + 1
         /\ status' = "error"
         /\ resultError' = err
         /\ effectPending' = (hook = "useQueryResults")
         /\ pending' = "none"
         /\ inflight' = <<>>
         /\ UNCHANGED <<resultData, fetchRuns, httpLog, served, firstPage,
                        currentPage, allRows>>

\* The queryFn's promise resolved with r.
Resolve(r) ==
    /\ status' = "success"
    /\ resultData' = <<r>>
    /\ resultError' = "none"
    /\ failureCount' = 0
    /\ pending' = "none"
    /\ inflight' = <<>>
    /\ UNCHANGED <<fetchRuns, httpLog, effectPending>>

\* A single-shot endpoint answers.
RespondResults ==
    /\ hook \in {"useQueryResults", "useUnderlyingDataResults"}
    /\ pending = "http"
    /\ HookPath(hook, data, flag) # "getQueryPaginatedResults"
    /\ \E r \in ServerResults : Resolve(r)
    /\ UNCHANGED <<hook, flag, data, triggers, served, firstPage, currentPage,
                   allRows, errorChannel>>
    /\ UNCHANGED chartVars
    /\ UNCHANGED <<driveVars, pureVars>>

\* The paginated endpoint answers with a page: getQueryPaginatedResults goes
\* on after its await, up to its next await or its return.
RespondPage ==
    /\ hook = "useQueryResults"
    /\ pending = "http"
    /\ HookPath(hook, data, flag) = "getQueryPaginatedResults"
    /\ \E page \in ServerPages(inflight[1]) :
         LET first == IF firstPage = <<>> THEN page ELSE firstPage[1]
             rows == IF firstPage = <<>> THEN page.rows
                                         ELSE ConcatRows(allRows, page)
         IN  /\ served' = Append(served, page)
             /\ firstPage' = <<first>>
             /\ currentPage' = <<page>>
             /\ allRows' = rows
             /\ IF HasNextPage(page)
                THEN /\ inflight' = <<NextPageRequest(first, page)>>
                     /\ httpLog' = Append(httpLog, NextPageRequest(first, page))
                     /\ UNCHANGED <<status, resultData, resultError,
                                    failureCount, pending, fetchRuns,
                                    effectPending>>
                ELSE Resolve(PaginatedResult(first, rows))
    /\ UNCHANGED <<hook, flag, data, triggers, errorChannel>>
    /\ UNCHANGED chartVars
    /\ UNCHANGED <<driveVars, pureVars>>

\* The awaited HTTP request fails (an ApiError): the await throws and the
\* queryFn's promise rejects.
RespondError ==
    /\ hook \in {"useQueryResults", "useUnderlyingDataResults"}
    /\ pending = "http"
    /\ Fail("ApiError")
    /\ UNCHANGED <<hook, flag, data, triggers, errorChannel>>
    /\ UNCHANGED chartVars
    /\ UNCHANGED <<driveVars, pureVars>>

\* Promise.reject(new ParameterError(...)) settles.
Rejected ==
    /\ hook = "useQueryResults"
    /\ pending = "rejected"
    /\ Fail("ParameterError")
    /\ UNCHANGED <<hook, flag, data, triggers, errorChannel>>
    /\ UNCHANGED chartVars
    /\ UNCHANGED <<driveVars, pureVars>>

\* The "On Error" effect of useQueryResults.
OnError ==
    /\ hook = "useQueryResults"
    /\ effectPending
    /\ effectPending' = FALSE
    /\ errorChannel' = IF resultError # "none"
                       THEN Append(errorChannel, resultError)
                       ELSE errorChannel
    /\ UNCHANGED <<hook, flag, data, status, resultData, resultError,
                   failureCount, fetchRuns, triggers, pending, inflight,
                   httpLog, served, firstPage, currentPage, allRows>>
    /\ UNCHANGED chartVars
    /\ UNCHANGED <<driveVars, pureVars>>

(***************************************************************************)
(* useChartAndResults.                                                     *)
(***************************************************************************)
\* sortKey: the dashboard sorts as "fieldId.descending" joined by commas, ''
\* when there are none (lines 172-175).
SortKey(dashboardSorts) ==
    IF dashboardSorts = <<>> THEN <<"">>
    ELSE [i \in 1..Len(dashboardSorts) |->
            <<dashboardSorts[i].fieldId, dashboardSorts[i].descending>>]

\* queryKey of useChartAndResults (lines 176-185); the dashboard's filters,
\* sorts and flags are those of one dashboard.
BaseKey(chartUuid, dashUuid) ==
    <<"savedChartResults", chartUuid, dashUuid, "dashboardFilters",
      Undefined, SortKey(<<>>), Undefined>>

\* A key that carries every granularity given.
UseQueryKeyAlways(queryKey, hasADateDimension, gran) ==
    IF Truthy(gran) THEN queryKey \o <<gran>> ELSE queryKey

\* The key handed to useQuery (lines 239-242).
UseQueryKey(queryKey, hasADateDimension, gran) ==
    IF hasADateDimension /\ Truthy(gran) THEN queryKey \o <<gran>>
                                          ELSE queryKey

\* queryClient.getQueryData(key): the data cached under key, as <<>> or <<data>>.
getQueryData(cache, key) ==
    IF key \in DOMAIN cache /\ cache[key].hasData
    THEN <<[hasADateDimension |-> cache[key].hasADateDimension]>>
    ELSE <<>>

\* An updater that clears the rendering chart's own entry only.
DateZoomUpdaterClearOwn(prev, hasADateDimension, gran, chartUuid) ==
    IF hasADateDimension
    THEN IF Truthy(gran)
         THEN [defined |-> TRUE,
               members |-> (IF prev.defined THEN prev.members ELSE {})
                              \cup {chartUuid}]
         ELSE IF prev.defined
              THEN [defined |-> TRUE, members |-> prev.members \ {chartUuid}]
              ELSE prev
    ELSE prev

\* An updater that starts from a new set at every add.
DateZoomUpdaterNewSet(prev, hasADateDimension, gran, chartUuid) ==
    IF hasADateDimension
    THEN IF Truthy(gran)
         THEN [defined |-> TRUE, members |-> {chartUuid}]
         ELSE IF prev.defined THEN [defined |-> TRUE, members |-> {}]
                              ELSE prev
    ELSE prev

\* The updater handed to setChartsWithDateZoomApplied (lines 227-236); a set
\* is [defined, members], undefined being [defined |-> FALSE].
DateZoomUpdater(prev, hasADateDimension, gran, chartUuid) ==
    IF hasADateDimension
    THEN IF Truthy(gran)
         THEN [defined |-> TRUE,
               members |-> (IF prev.defined THEN prev.members ELSE {})
                              \cup {chartUuid}]
         ELSE IF prev.defined THEN [defined |-> TRUE, members |-> {}]
                              ELSE prev
    ELSE prev

\* enabled option of useChartAndResults (line 244).
ChartEnabled(chartUuid, dashUuid) == Truthy(chartUuid) /\ dashUuid # "null"

CachePut(cache, key, entry) ==
    [k \in DOMAIN cache \cup {key} |-> IF k = key THEN entry ELSE cache[k]]

\* Status of the useQuery result for key.
ResultStatus(cache, key) ==
    IF key \in DOMAIN cache THEN cache[key].state ELSE "idle"

\* One render of useChartAndResults for tile c: it reads the cache under the
\* base key, updates the date-zoom tracking set, and subscribes useQuery to
\* the key, which starts a fetch when the key has no query yet.
Render(c) ==
    /\ hook = "useChartAndResults"
    /\ needsRender[c]
    /\ LET queryKey == BaseKey(c, dashboardUuid)
           apiChartAndResults == getQueryData(queryCache, queryKey)
           hasADateDimension == /\ apiChartAndResults # <<>>
                                /\ apiChartAndResults[1].hasADateDimension
           key == UseQueryKey(queryKey, hasADateDimension, granularity)
           fetch == /\ ChartEnabled(c, dashboardUuid)
                    /\ key \notin DOMAIN queryCache
           cache == IF fetch
                    THEN CachePut(queryCache, key,
                                  [state |-> "loading", hasData |-> FALSE,
                                   hasADateDimension |-> FALSE, failures |-> 0])
                    ELSE queryCache
       IN  /\ chartsWithDateZoomApplied' =
                 DateZoomUpdater(chartsWithDateZoomApplied, hasADateDimension,
                                 granularity, c)
           /\ rendered' = [chartUuid |-> c,
                           seen |-> apiChartAndResults # <<>>,
                           hasADateDimension |-> hasADateDimension,
                           granularity |-> granularity,
                           prev |-> chartsWithDateZoomApplied,
                           queryKey |-> key]
           /\ queryCache' = cache
           /\ triggers' = IF fetch THEN triggers + 1 ELSE triggers
           /\ fetchRuns' = IF fetch THEN fetchRuns + 1 ELSE fetchRuns
           /\ observed' = [observed EXCEPT
                              ![c] = [key |-> key,
                                      status |-> ResultStatus(cache, key)]]
    /\ needsRender' = [needsRender EXCEPT ![c] = FALSE]
    /\ UNCHANGED <<dashboardUuid, granularity, chartHasDate, zoomChanges>>
    /\ UNCHANGED <<hook, flag, data, status, resultData, resultError,
                   failureCount, pending, inflight, httpLog, served,
                   firstPage, currentPage, allRows, errorChannel,
                   effectPending>>
    /\ UNCHANGED <<driveVars, pureVars>>

\* The tiles whose hook observes key are due to render again.
Notify(key) ==
    [c \in Charts |-> needsRender[c] \/ observed[c].key = key]

\* The chart-and-results request of key is answered: its metadata tells
\* whether the chart has a date dimension.
ChartRespond(key) ==
    /\ hook = "useChartAndResults"
    /\ key \in DOMAIN queryCache
    /\ queryCache[key].state = "loading"
    /\ queryCache' = CachePut(queryCache, key,
                              [state |-> "success", hasData |-> TRUE,
                               hasADateDimension |-> chartHasDate[key[2]],
                               failures |-> 0])
    /\ needsRender' = Notify(key)
    /\ UNCHANGED <<dashboardUuid, granularity, chartHasDate,
                   chartsWithDateZoomApplied, observed, rendered, zoomChanges>>
    /\ UNCHANGED hookVars
    /\ UNCHANGED <<driveVars, pureVars>>

\* The chart-and-results request of key fails.
ChartRespondError(key) ==
    /\ hook = "useChartAndResults"
    /\ key \in DOMAIN queryCache
    /\ queryCache[key].state = "loading"
    /\ IF ShouldRetry(hook, queryCache[key].failures)
       THEN /\ queryCache' = [queryCache EXCEPT
                                ![key].failures = queryCache[key].failures + 1]
            /\ fetchRuns' = fetchRuns + 1
            /\ UNCHANGED needsRender
       ELSE /\ queryCache' = [queryCache EXCEPT
                                ![key].failures = queryCache[key].failures + 1,
                                ![key].state = "error"]
            /\ needsRender' = Notify(key)
            /\ UNCHANGED fetchRuns
    /\ UNCHANGED <<dashboardUuid, granularity, chartHasDate,
                   chartsWithDateZoomApplied, observed, rendered, zoomChanges>>
    /\ UNCHANGED <<hook, flag, data, status, resultData, resultError,
                   failureCount, triggers, pending, inflight, httpLog, served,
                   firstPage, currentPage, allRows, errorChannel,
                   effectPending>>
    /\ UNCHANGED <<driveVars, pureVars>>

\* The user changes the dashboard's date zoom: every tile renders again.
SetGranularity(g) ==
    /\ hook = "useChartAndResults"
    /\ zoomChanges < MaxZoomChanges
    /\ g # granularity
    /\ granularity' = g
    /\ zoomChanges' = zoomChanges + 1
    /\ needsRender' = [c \in Charts |-> TRUE]
    /\ UNCHANGED <<dashboardUuid, chartHasDate, chartsWithDateZoomApplied,
                   queryCache, observed, rendered>>
    /\ UNCHANGED hookVars
    /\ UNCHANGED <<driveVars, pureVars>>

NoRender ==
    [chartUuid |-> Undefined, seen |-> FALSE, hasADateDimension |-> FALSE,
     granularity |-> Undefined, prev |-> [defined |-> FALSE, members |-> {}],
     queryKey |-> <<>>]

ChartInit ==
    /\ dashboardUuid \in (IF hook = "useChartAndResults" THEN {"null", "d1"}
                                                         ELSE {"null"})
    /\ granularity \in (IF hook = "useChartAndResults"
                         THEN {Undefined} \cup Granularities ELSE {Undefined})
    /\ chartHasDate \in (IF hook = "useChartAndResults"
                          THEN [Charts -> BOOLEAN]
                          ELSE {[c \in Charts |-> FALSE]})
    /\ chartsWithDateZoomApplied \in
          (IF hook = "useChartAndResults"
           THEN {[defined |-> FALSE, members |-> {}],
                 [defined |-> TRUE, members |-> {}]}
           ELSE {[defined |-> FALSE, members |-> {}]})
    /\ queryCache = <<>>
    /\ needsRender = [c \in Charts |-> hook = "useChartAndResults"]
    /\ observed = [c \in Charts |-> [key |-> <<>>, status |-> "idle"]]
    /\ rendered = NoRender
    /\ zoomChanges = 0

ChartKeys ==
    {BaseKey(c, dashboardUuid) : c \in Charts}
        \cup {BaseKey(c, dashboardUuid) \o <<g>> : c \in Charts, g \in Granularities}

(***************************************************************************)
(* GoogleDriveClient.                                                      *)
(***************************************************************************)
\* Names are sequences of characters.  A tab name is undefined (<<>>) or
\* given (<<name>>).
TabNames == {<<"a", "b">>, <<"a", ":", "b">>, <<"x", ":", "y", ":">>}
MetadataTabName == <<"metadata">>
FirstSheetName == <<"Sheet1">>

\* The public operations and their arguments: the tab name, whether the rows
\* (csvContent, results) are empty, and whether the refresh token makes
\* credentials (google.auth.fromJSON throws when it does not).
DriveOps ==
    [name : {"createNewTab"}, tabName : {<<n>> : n \in TabNames},
     empty : {FALSE}, credentialsOk : BOOLEAN]
    \cup [name : {"createNewSheet", "uploadMetadata"}, tabName : {<<>>},
          empty : {FALSE}, credentialsOk : BOOLEAN]
    \cup [name : {"appendToSheet", "appendCsvToSheet"},
          tabName : {<<>>} \cup {<<n>> : n \in TabNames},
          empty : BOOLEAN, credentialsOk : BOOLEAN]

NoOp == [name |-> "none", tabName |-> <<>>, empty |-> FALSE,
         credentialsOk |-> FALSE]

\* What the provider may answer to a call: success, or an HTTP error.
ErrorKinds ==
    {"e400", "e400bare", "invalid_grant", "e401", "e403", "e500"}

Responses(api) ==
    {"ok"} \cup ErrorKinds
           \cup (IF api = "addSheet" THEN {"e400exists"} ELSE {})
           \cup (IF api = "get" THEN {"okNoTitle"} ELSE {})

\* The error object of a failed call with argument arg: the response's
\* status, the data.error of its body, the error's code, and its errors
\* array, if it has one (the messages).  The "already exists" message names
\* the title the add-sheet request asked for.
ErrorOf(kind, arg) ==
    CASE kind = "e400exists" ->
            [name |-> "GaxiosError", status |-> 400, dataError |-> Undefined,
             code |-> 400, hasErrors |-> TRUE,
             errors |-> <<<<"name", "'">> \o arg \o <<"'", "exists">>>>]
      [] kind = "e400" ->
            [name |-> "GaxiosError", status |-> 400, dataError |-> Undefined,
             code |-> 400, hasErrors |-> TRUE, errors |-> <<<<"invalid">>>>]
      [] kind = "e400bare" ->
            [name |-> "GaxiosError", status |-> 400, dataError |-> Undefined,
             code |-> 400, hasErrors |-> FALSE, errors |-> <<>>]
      [] kind = "invalid_grant" ->
            [name |-> "GaxiosError", status |-> 400,
             dataError |-> "invalid_grant",
             code |-> 400, hasErrors |-> FALSE, errors |-> <<>>]
      [] kind = "e401" ->
            [name |-> "GaxiosError", status |-> 401, dataError |-> Undefined,
             code |-> 401, hasErrors |-> TRUE, errors |-> <<<<"login">>>>]
      [] kind = "e403" ->
            [name |-> "GaxiosError", status |-> 403, dataError |-> Undefined,
             code |-> 403, hasErrors |-> TRUE, errors |-> <<<<"denied">>>>]
      [] kind = "e500" ->
            [name |-> "GaxiosError", status |-> 500, dataError |-> Undefined,
             code |-> 500, hasErrors |-> TRUE, errors |-> <<<<"internal">>>>]

\* new ForbiddenError(...): a LightdashError, which has no code and no errors.
ForbiddenError ==
    [name |-> "ForbiddenError", status |-> 0, dataError |-> Undefined,
     code |-> 0, hasErrors |-> FALSE, errors |-> <<>>]

\* A constructor content with either credential.
IsEnabledEither(cfg) ==
    cfg.oauth2ClientId # Undefined \/ cfg.oauth2ClientSecret # Undefined

\* this.isEnabled, as the constructor sets it.
IsEnabled(cfg) ==
    cfg.oauth2ClientId # Undefined /\ cfg.oauth2ClientSecret # Undefined

\* catchForbiddenError: the error it throws for the error err of its promise.
catchForbiddenError(err) ==
    IF err.status = 401 THEN ForbiddenError
    ELSE IF err.status = 400 /\ err.dataError = "invalid_grant"
    THEN ForbiddenError
    ELSE err

\* tabName.replaceAll(':', '.')
TabTitle(tabName) ==
    [i \in 1..Len(tabName) |-> IF tabName[i] = ":" THEN "." ELSE tabName[i]]

\* message.includes(name)
Includes(message, name) ==
    \E i \in 1..(Len(message) + 1) :
        /\ i + Len(name) - 1 <= Len(message)
        /\ SubSeq(message, i, i + Len(name) - 1) = name

\* A handler that lets every error but a malformed one pass.
TabCatchSwallowAll(error, tabName) ==
    IF error.code = 400 /\ ~error.hasErrors THEN "TypeError" ELSE "swallow"

\* The .catch handler of createNewTab's add-sheet request: "swallow" when it
\* returns, else the error it throws.
TabCatch(error, tabName) ==
    IF error.code = 400
    THEN IF ~error.hasErrors THEN "TypeError"
         ELSE "swallow"
    ELSE IF error.code = 500 THEN "GoogleSheetsTransientError"
    ELSE "swallow"

\* Whether the handler logs "tab already exists, we will overwrite it".
TabCatchLogsOverwrite(error, tabName) ==
    /\ error.code = 400
    /\ error.hasErrors
    /\ error.errors # <<>>
    /\ Includes(error.errors[1], tabName)

\* Operations that look at their rows before they look at isEnabled.
EntryEmptyFirst(name, enabled, empty) ==
    IF name \in {"appendToSheet", "appendCsvToSheet"} /\ empty THEN "return"
    ELSE IF ~enabled THEN "MissingConfigError"
    ELSE "proceed"

\* How each public operation begins: the error it throws at once, "return"
\* when it returns without doing anything, or "proceed".
Entry(name, enabled, empty) ==
    IF ~enabled THEN "MissingConfigError"
    ELSE IF name \in {"appendToSheet", "appendCsvToSheet"} /\ empty
    THEN "return"
    ELSE "proceed"

\* getCredentials: the error it throws, or "ok".
getCredentials(ok) == IF ok THEN "ok" ELSE "ForbiddenError"

\* The tab name createNewTab is called with by the operation o, if it is.
TabToCreate(o) ==
    CASE o.name = "createNewTab" -> o.tabName
      [] o.name = "uploadMetadata" -> <<MetadataTabName>>
      [] o.name \in {"appendToSheet", "appendCsvToSheet"} ->
            IF o.tabName # <<>> /\ o.tabName[1] # <<>> THEN o.tabName ELSE <<>>
      [] OTHER -> <<>>

Call(api, arg) == [api |-> api, arg |-> arg]

\* The range clearTabName clears for the operation o, once its tab is made:
\* the tab name it is handed (line 156, line 347).
ClearRange(o) ==
    IF o.name = "uploadMetadata" THEN MetadataTabName ELSE o.tabName[1]

\* The range of the values.update request (line 174, line 356).
UpdateRange(o, sanitized) ==
    IF o.name = "uploadMetadata" THEN MetadataTabName \o <<"!", "A", "1">>
    ELSE IF sanitized # <<>> /\ sanitized[1] # <<>>
    THEN sanitized[1] \o <<"!", "A", "1">>
    ELSE <<"A", "1">>

Finish(result, value) ==
    /\ dpc' = "done"
    /\ outcome' = result
    /\ returned' = value

Issue(api, arg) ==
    /\ dpc' = api
    /\ calls' = Append(calls, Call(api, arg))
    /\ UNCHANGED <<outcome, returned>>

\* clearTabName is entered by the operation o: it reads the spreadsheet when
\* it has no tab name, and clears the range of its tab name when it has one.
EnterClear(o) ==
    IF o.name # "uploadMetadata" /\ o.tabName = <<>>
    THEN Issue("get", <<>>)
    ELSE Issue("clear", ClearRange(o))

\* createNewTab has returned tabTitle to the operation o, which goes on.
AfterTab(o, tabTitle) ==
    IF o.name = "createNewTab"
    THEN /\ Finish("ok", <<tabTitle>>)
         /\ UNCHANGED <<calls, sanitizedTabName>>
    ELSE /\ sanitizedTabName' =
              IF o.name = "uploadMetadata" THEN sanitizedTabName
                                           ELSE <<tabTitle>>
         /\ EnterClear(o)

\* A public operation is called.
DriveStart(o) ==
    /\ dpc = "idle"
    /\ op' = o
    /\ resps' = <<>>
    /\ sanitizedTabName' = <<>>
    /\ LET entry == Entry(o.name, isEnabled, o.empty)
       IN  IF entry = "MissingConfigError"
           THEN Finish("MissingConfigError", <<>>) /\ calls' = <<>>
           ELSE IF entry = "return"
           THEN Finish("ok", <<>>) /\ calls' = <<>>
           ELSE IF getCredentials(o.credentialsOk) # "ok"
           THEN Finish(getCredentials(o.credentialsOk), <<>>) /\ calls' = <<>>
           ELSE IF o.name = "createNewSheet"
           THEN /\ dpc' = "create"
                /\ calls' = <<Call("create", <<>>)>>
                /\ UNCHANGED <<outcome, returned>>
           ELSE IF TabToCreate(o) # <<>>
           THEN /\ dpc' = "addSheet"
                /\ calls' = <<Call("addSheet", TabTitle(TabToCreate(o)[1]))>>
                /\ UNCHANGED <<outcome, returned>>
           ELSE IF o.tabName = <<>>
           THEN /\ dpc' = "get"
                /\ calls' = <<Call("get", <<>>)>>
                /\ UNCHANGED <<outcome, returned>>
           ELSE /\ dpc' = "clear"
                /\ calls' = <<Call("clear", ClearRange(o))>>
                /\ UNCHANGED <<outcome, returned>>
    /\ UNCHANGED <<config, isEnabled, logged>>
    /\ UNCHANGED <<hookVars, chartVars, pureVars>>

\* The provider answers the add-sheet request of createNewTab.
AddSheetResponse(kind) ==
    /\ dpc = "addSheet"
    /\ resps' = Append(resps, kind)
    /\ LET tabName == TabToCreate(op)[1]
           tabTitle == TabTitle(tabName)
           caught == IF kind = "ok" THEN "swallow"
                     ELSE TabCatch(catchForbiddenError(ErrorOf(kind, tabTitle)),
                                   tabName)
       IN  IF caught = "swallow"
           THEN AfterTab(op, tabTitle)
           ELSE /\ Finish(caught, <<>>)
                /\ UNCHANGED <<calls, sanitizedTabName>>
    /\ UNCHANGED <<config, isEnabled, op, logged>>
    /\ UNCHANGED <<hookVars, chartVars, pureVars>>

\* new UnexpectedGoogleSheetsError(...), thrown when the spreadsheet read
\* gives no first sheet name.
UnexpectedGoogleSheetsError ==
    [name |-> "UnexpectedGoogleSheetsError", status |-> 0,
     dataError |-> Undefined, code |-> 0, hasErrors |-> FALSE, errors |-> <<>>]

\* A catch block that lets authorization errors through.
ClearCatchRethrowForbidden(error) ==
    IF error.name = "ForbiddenError" THEN "ForbiddenError" ELSE "swallow"

\* The catch block of clearTabName (lines 221-224): "swallow" when it logs
\* the error and returns, else the error it throws.
ClearCatch(error) == "swallow"

\* An error was thrown inside the try block of clearTabName.
ClearFailed(error) ==
    IF ClearCatch(error) = "swallow"
    THEN /\ logged' = Append(logged, "Unable to clear the sheet")
         /\ Issue("update", UpdateRange(op, sanitizedTabName))
    ELSE /\ Finish(ClearCatch(error), <<>>)
         /\ UNCHANGED <<calls, logged>>

\* The provider answers the spreadsheets.get request of clearTabName: with
\* the first sheet's name the range is cleared; a failure, or no name, is
\* logged and the operation goes on to write.
GetResponse(kind) ==
    /\ dpc = "get"
    /\ resps' = Append(resps, kind)
    /\ IF kind = "ok"
       THEN Issue("clear", FirstSheetName) /\ UNCHANGED logged
       ELSE IF kind = "okNoTitle"
       THEN ClearFailed(UnexpectedGoogleSheetsError)
       ELSE ClearFailed(catchForbiddenError(ErrorOf(kind, <<>>)))
    /\ UNCHANGED <<config, isEnabled, op, sanitizedTabName>>
    /\ UNCHANGED <<hookVars, chartVars, pureVars>>

\* The provider answers the values.clear request of clearTabName: whatever
\* the answer, the operation goes on to write.
ClearResponse(kind) ==
    /\ dpc = "clear"
    /\ resps' = Append(resps, kind)
    /\ IF kind = "ok"
       THEN Issue("update", UpdateRange(op, sanitizedTabName))
            /\ UNCHANGED logged
       ELSE ClearFailed(catchForbiddenError(ErrorOf(kind, <<>>)))
    /\ UNCHANGED <<config, isEnabled, op, sanitizedTabName>>
    /\ UNCHANGED <<hookVars, chartVars, pureVars>>

\* The provider answers the values.update request (appendCsvToSheet,
\* uploadMetadata) or the create request (createNewSheet).
LastResponse(kind) ==
    /\ dpc \in {"update", "create"}
    /\ resps' = Append(resps, kind)
    /\ IF kind = "ok"
       THEN Finish("ok", IF dpc = "create" THEN <<<<"spreadsheet">>>> ELSE <<>>)
       ELSE Finish(catchForbiddenError(ErrorOf(kind, <<>>)).name, <<>>)
    /\ UNCHANGED <<config, isEnabled, op, sanitizedTabName, calls, logged>>
    /\ UNCHANGED <<hookVars, chartVars, pureVars>>

\* The caller has the operation's result; the client serves the next one.
DriveReturn ==
    /\ dpc = "done"
    /\ dpc' = "idle"
    /\ op' = NoOp
    /\ calls' = <<>>
    /\ resps' = <<>>
    /\ outcome' = "none"
    /\ returned' = <<>>
    /\ logged' = <<>>
    /\ sanitizedTabName' = <<>>
    /\ UNCHANGED <<config, isEnabled>>
    /\ UNCHANGED <<hookVars, chartVars, pureVars>>

\* An idle client, of either configuration.
DriveIdle ==
    /\ isEnabled = IsEnabled(config)
    /\ op = NoOp
    /\ dpc = "idle"
    /\ sanitizedTabName = <<>>
    /\ calls = <<>>
    /\ resps = <<>>
    /\ outcome = "none"
    /\ logged = <<>>
    /\ returned = <<>>

\* new GoogleDriveClient({ lightdashConfig })
DriveInit ==
    /\ config \in [oauth2ClientId : {Undefined, "id"},
                   oauth2ClientSecret : {Undefined, "secret"}]
    /\ DriveIdle

(***************************************************************************)
(* GoogleDriveClient.formatCell.  A JavaScript value is a record: kind is  *)
(* its type or class, elems the elements of an array or Set (in order; an  *)
(* element is a one-character string, or null/undefined written            *)
(* Undefined), prim the characters of a primitive, of a boxed primitive,   *)
(* of a RegExp's source, of a Date's ISO text or of a plain object's       *)
(* members, arg the arguments of a formatter call the value stands for.    *)
(***************************************************************************)
Cell(kind, elems, prim, arg) ==
    [kind |-> kind, elems |-> elems, prim |-> prim, arg |-> arg]

\* A value no call has bound or returned.
NoCell == Cell("none", <<>>, <<>>, <<>>)

ElemSeqs == {<<>>, <<"a">>, <<"a", "b">>, <<"a", Undefined, "b">>}

\* The values a result row may hold for a field.
CellValues ==
    {Cell("Array", e, <<>>, <<>>) : e \in ElemSeqs}
    \cup {Cell("Set", e, <<>>, <<>>) : e \in ElemSeqs}
    \cup {Cell("RegExp", <<>>, <<"a", "+">>, <<>>),
          Cell("Date", <<>>, <<"2024", "-", "01", "-", "02">>, <<>>),
          Cell("Number", <<>>, <<"4", "2">>, <<>>),
          Cell("Boolean", <<>>, <<"true">>, <<>>),
          Cell("String", <<>>, <<"a">>, <<>>),
          Cell("object", <<>>, <<"k">>, <<>>),
          Cell("object", <<>>, <<>>, <<>>),
          Cell("string", <<>>, <<"a">>, <<>>),
          Cell("string", <<>>, <<"2024", "-", "01", "-", "02">>, <<>>),
          Cell("string", <<>>, <<>>, <<>>),
          Cell("number", <<>>, <<"4", "2">>, <<>>),
          Cell("boolean", <<>>, <<"false">>, <<>>),
          Cell("null", <<>>, <<>>, <<>>),
          Cell("undefined", <<>>, <<>>, <<>>)}

\* item?: Field | TableCalculation | CustomDimension | Metric.  fieldType is
\* Undefined for an item without that property.
Item(defined, fieldType, type, timeInterval) ==
    [defined |-> defined, fieldType |-> fieldType, type |-> type,
     timeInterval |-> timeInterval]

NoItem == Item(FALSE, Undefined, Undefined, Undefined)

TimeIntervals == {Undefined, "DAY", "MONTH"}

CellItems ==
    {NoItem}
    \cup {Item(TRUE, "dimension", t, ti) :
              t \in {"date", "timestamp", "string"}, ti \in TimeIntervals}
    \cup {Item(TRUE, "metric", t, Undefined) : t \in {"date", "number"}}
    \cup {Item(TRUE, Undefined, t, Undefined) : t \in {Undefined, "date", "sql"}}

\* isField of @lightdash/common: the item is a dimension or a metric.
isField(item) == item.defined /\ item.fieldType # Undefined

\* isDimension of @lightdash/common.
isDimension(item) == isField(item) /\ item.fieldType = "dimension"

\* formatDate of @lightdash/common: the text it gives is a function of the
\* value and the time interval.
formatDate(value, timeInterval) ==
    Cell("string", <<>>, <<>>, <<"formatDate", value, timeInterval>>)

\* A primitive string of the given characters.
Str(chars) == Cell("string", <<>>, chars, <<>>)

RECURSIVE Join(_)
\* Array.prototype.join(','): null and undefined elements give no text.
Join(elems) ==
    IF elems = <<>> THEN <<>>
    ELSE LET first == IF Head(elems) = Undefined THEN <<>> ELSE <<Head(elems)>>
         IN  IF Len(elems) = 1 THEN first
             ELSE first \o <<",">> \o Join(Tail(elems))

\* typeof value === 'object'
TypeofObject(value) ==
    value.kind \in {"Array", "Set", "RegExp", "Date", "Number", "Boolean",
                    "String", "object", "null"}

\* value.valueOf() of a boxed primitive.
valueOf(value) ==
    Cell(CASE value.kind = "Number" -> "number"
           [] value.kind = "Boolean" -> "boolean"
           [] value.kind = "String" -> "string",
         <<>>, value.prim, <<>>)

\* JSON.stringify of a plain object.
JSONstringify(value) == Str(<<"{">> \o value.prim \o <<"}">>)

\* formatCell with the field's type looked at before the value's class.
formatCellDateFirst(value, item) ==
    IF isField(item) /\ item.type = "date"
    THEN formatDate(value,
                    IF isDimension(item) THEN item.timeInterval ELSE Undefined)
    ELSE IF value.kind \in {"Array", "Set"} THEN Str(Join(value.elems))
    ELSE IF value.kind = "RegExp" THEN Str(value.prim)
    ELSE IF value.kind \in {"Number", "Boolean", "String"} THEN valueOf(value)
    ELSE IF value.kind = "object" THEN JSONstringify(value)
    ELSE value

\* static formatCell(value, item)
formatCell(value, item) ==
    IF value.kind = "Array" THEN Str(Join(value.elems))
    ELSE IF value.kind = "RegExp" THEN Str(value.prim)
    ELSE IF value.kind = "Set" THEN Str(Join(value.elems))
    ELSE IF isField(item) /\ item.type = "date"
    THEN formatDate(value,
                    IF isDimension(item) THEN item.timeInterval ELSE Undefined)
    ELSE IF /\ TypeofObject(value)
            /\ value.kind \in {"Number", "Boolean", "String"}
    THEN valueOf(value)
    ELSE IF /\ value.kind # "null"
            /\ TypeofObject(value)
            /\ value.kind # "Date"
    THEN JSONstringify(value)
    ELSE value

\* appendToSheet formats one cell of a row.
FormatCell ==
    /\ fpc = "call"
    /\ fpc' = "returned"
    /\ cellOutput' = formatCell(cellValue, cellItem)
    /\ UNCHANGED <<cellValue, cellItem>>
    /\ UNCHANGED <<tpc, visualizationContext, element>>
    /\ UNCHANGED <<hookVars, chartVars, driveVars>>

\* No cell is being formatted.
FormatIdle ==
    /\ fpc = "idle"
    /\ cellValue = NoCell
    /\ cellItem = NoItem
    /\ cellOutput = NoCell

\* A cell of a row and the item of its field.
FormatInit ==
    /\ fpc = "call"
    /\ cellValue \in CellValues
    /\ cellItem \in CellItems
    /\ cellOutput = NoCell

(***************************************************************************)
(* The SimpleTable component.  The context of a render: whether the        *)
(* visualization config is a table's, isLoading, and of the table's chart  *)
(* config the error, and pivotTableData's error, loading and data (<<>>    *)
(* for undefined, else <<rowsCount>>).                                     *)
(***************************************************************************)
Context(isTable, isLoading, error, pivotError, pivotLoading, pivotData) ==
    [isTable |-> isTable, isLoading |-> isLoading, error |-> error,
     pivotTableData |-> [error |-> pivotError, loading |-> pivotLoading,
                         data |-> pivotData]]

\* The context before any render: a config of another chart kind.
NoContext == Context(FALSE, FALSE, Undefined, Undefined, FALSE, <<>>)

Contexts ==
    {Context(TRUE, l, e, pe, pl, pd) :
        l \in BOOLEAN, e \in {Undefined, "", "row error"},
        pe \in {Undefined, "", "pivot error"}, pl \in BOOLEAN,
        pd \in {<<>>, <<7>>}}
    \cup {Context(FALSE, l, Undefined, Undefined, FALSE, <<>>) : l \in BOOLEAN}

\* A React element: its component, the description it is given, and the
\* component it wraps.
Element(component, description, child) ==
    [component |-> component, description |-> description, child |-> child]

\* A component that shows the error before the loading placeholder.
SimpleTableErrorFirst(ctx) ==
    IF ~ctx.isTable THEN Element("null", Undefined, "none")
    ELSE IF Truthy(ctx.error)
    THEN Element("SuboptimalState", ctx.error, "none")
    ELSE IF Truthy(ctx.pivotTableData.error)
    THEN Element("SuboptimalState", ctx.pivotTableData.error, "none")
    ELSE IF ctx.isLoading THEN Element("LoadingChart", Undefined, "none")
    ELSE IF ctx.pivotTableData.loading \/ ctx.pivotTableData.data # <<>>
    THEN Element("Box", Undefined,
                 IF ctx.pivotTableData.data # <<>> THEN "PivotTable"
                                                    ELSE "LoadingChart")
    ELSE Element("Box", Undefined, "Table")

\* The render function of SimpleTable (lines 24-163).
SimpleTable(ctx) ==
    IF ~ctx.isTable THEN Element("null", Undefined, "none")
    ELSE IF ctx.isLoading THEN Element("LoadingChart", Undefined, "none")
    ELSE IF Truthy(ctx.error)
    THEN Element("SuboptimalState", ctx.error, "none")
    ELSE IF Truthy(ctx.pivotTableData.error)
    THEN Element("SuboptimalState", ctx.pivotTableData.error, "none")
    ELSE IF ctx.pivotTableData.loading \/ ctx.pivotTableData.data # <<>>
    THEN Element("Box", Undefined,
                 IF ctx.pivotTableData.data # <<>> THEN "PivotTable"
                                                    ELSE "LoadingChart")
    ELSE Element("Box", Undefined, "Table")

\* React renders the component.
RenderTable ==
    /\ tpc = "render"
    /\ tpc' = "rendered"
    /\ element' = SimpleTable(visualizationContext)
    /\ UNCHANGED visualizationContext
    /\ UNCHANGED <<fpc, cellValue, cellItem, cellOutput>>
    /\ UNCHANGED <<hookVars, chartVars, driveVars>>

\* No SimpleTable is mounted.
TableIdle ==
    /\ tpc = "idle"
    /\ visualizationContext = NoContext
    /\ element = Element("null", Undefined, "none")

\* A SimpleTable is about to render in some context.
TableInit ==
    /\ tpc = "render"
    /\ visualizationContext \in Contexts
    /\ element = Element("null", Undefined, "none")

HooksInit ==
    /\ hook \in Hooks
    /\ flag \in (IF hook = "useQueryResults" THEN BOOLEAN ELSE {FALSE})
    /\ data = <<>>
    /\ status = "idle"
    /\ resultData = <<>>
    /\ resultError = "none"
    /\ failureCount = 0
    /\ fetchRuns = 0
    /\ triggers = 0
    /\ pending = "none"
    /\ inflight = <<>>
    /\ httpLog = <<>>
    /\ served = <<>>
    /\ firstPage = <<>>
    /\ currentPage = <<>>
    /\ allRows = <<>>
    /\ errorChannel = <<>>
    /\ effectPending = FALSE

\* No hook is mounted.
HooksIdle ==
    /\ hook = "none"
    /\ flag = FALSE
    /\ data = <<>>
    /\ status = "idle"
    /\ resultData = <<>>
    /\ resultError = "none"
    /\ failureCount = 0
    /\ fetchRuns = 0
    /\ triggers = 0
    /\ pending = "none"
    /\ inflight = <<>>
    /\ httpLog = <<>>
    /\ served = <<>>
    /\ firstPage = <<>>
    /\ currentPage = <<>>
    /\ allRows = <<>>
    /\ errorChannel = <<>>
    /\ effectPending = FALSE

Init ==
    /\ HooksInit
    /\ ChartInit
    /\ config = [oauth2ClientId |-> Undefined, oauth2ClientSecret |-> Undefined]
    /\ DriveIdle
    /\ FormatIdle
    /\ TableIdle

Next ==
    \/ \E d \in {<<>>} \cup {<<p>> : p \in QueryResultsProps} : Trigger(d)
    \/ RespondResults
    \/ RespondPage
    \/ RespondError
    \/ Rejected
    \/ OnError
    \/ \E c \in Charts : Render(c)
    \/ \E key \in ChartKeys : ChartRespond(key)
    \/ \E key \in ChartKeys : ChartRespondError(key)
    \/ \E g \in {Undefined} \cup Granularities : SetGranularity(g)

Spec == Init /\ [][Next]_vars

InitDrive == HooksIdle /\ ChartInit /\ DriveInit /\ FormatIdle /\ TableIdle

NextDrive ==
    \/ \E o \in DriveOps : DriveStart(o)
    \/ \E kind \in Responses("addSheet") : AddSheetResponse(kind)
    \/ \E kind \in Responses("get") : GetResponse(kind)
    \/ \E kind \in Responses("clear") : ClearResponse(kind)
    \/ \E kind \in Responses("update") : LastResponse(kind)
    \/ DriveReturn

SpecDrive == InitDrive /\ [][NextDrive]_vars

\* No hook, no operation of the client: one cell is formatted.
InitFormat ==
    /\ HooksIdle
    /\ ChartInit
    /\ config = [oauth2ClientId |-> Undefined, oauth2ClientSecret |-> Undefined]
    /\ DriveIdle
    /\ FormatInit
    /\ TableIdle

NextFormat == FormatCell

SpecFormat == InitFormat /\ [][NextFormat]_vars

\* No hook, no operation of the client: one SimpleTable renders.
InitTable ==
    /\ HooksIdle
    /\ ChartInit
    /\ config = [oauth2ClientId |-> Undefined, oauth2ClientSecret |-> Undefined]
    /\ DriveIdle
    /\ FormatIdle
    /\ TableInit

NextTable == RenderTable

SpecTable == InitTable /\ [][NextTable]_vars

(***************************************************************************)
(* Properties of the hooks.                                                *)
(***************************************************************************)
RECURSIVE ConcatPages(_)
\* The rows of a sequence of pages, page after page.
ConcatPages(ps) ==
    IF ps = <<>> THEN <<>> ELSE ps[1].rows \o ConcatPages(Tail(ps))

Paginated ==
    hook = "useQueryResults" /\ queryFn(data, flag) = "getQueryPaginatedResults"

\* C1: when a paginated query has been answered as a chain of N >= 1 pages,
\* the result holds the rows of the pages concatenated in page order, and the
\* fields and metricQuery of page 1.
C1_PagesConcatenated ==
    (Paginated /\ status = "success") =>
        /\ Len(served) >= 1
        /\ \A i \in 1..Len(served) : served[i].page = i
        /\ resultData[1].rows = ConcatPages(served)
        /\ resultData[1].fields = served[1].fields
        /\ resultData[1].metricQuery = served[1].metricQuery

C1_Witness ==
    /\ Paginated /\ status = "success"
    /\ Len(served) = 3
    /\ served[1].rows = <<"r1", "r2">>
    /\ served[2].rows = <<"r1", "r1">>
    /\ served[3].rows = <<"r2", "r1">>
    /\ resultData[1].rows = <<"r1", "r2", "r1", "r1", "r2", "r1">>

\* A request that names no chart, no chart with a version, and no query.
NothingToRun ==
    /\ hook = "useQueryResults"
    /\ data # <<>>
    /\ ~Truthy(data[1].chartUuid)
    /\ ~Truthy(data[1].query)

\* C2: the query function of a request without chartUuid and without query
\* (with or without a chartVersionUuid) fails with a ParameterError, and no
\* HTTP call is issued for it.
C2_ParameterError ==
    (NothingToRun /\ status # "idle") =>
        /\ httpLog = <<>>
        /\ inflight = <<>>
        /\ pending # "http"
        /\ status \in {"loading", "error"}
        /\ status = "error" => resultError = "ParameterError"

C2_Witness ==
    /\ NothingToRun
    /\ data[1].chartVersionUuid = "v1"
    /\ status = "error"
    /\ resultError = "ParameterError"
    /\ fetchRuns >= 1

\* C3 as claimed: after a render that saw a response without a date
\* dimension, the date-zoom tracking set is empty.
C3_ClearedWithoutDateDimension ==
    (rendered.seen /\ ~rendered.hasADateDimension) =>
        chartsWithDateZoomApplied.members = {}

\* C3 as amended: after a render that saw a response with a date dimension
\* while no granularity is given, the date-zoom tracking set is empty whatever
\* it held; a render that saw no date dimension leaves the set as it was.
C3_ClearedWithoutGranularity ==
    /\ (rendered.hasADateDimension /\ ~Truthy(rendered.granularity)) =>
            chartsWithDateZoomApplied.members = {}
    /\ (rendered.chartUuid # Undefined /\ ~rendered.hasADateDimension) =>
            chartsWithDateZoomApplied = rendered.prev

C3_Witness ==
    /\ rendered.hasADateDimension
    /\ ~Truthy(rendered.granularity)
    /\ rendered.chartUuid = "c1"
    /\ rendered.prev.members = {"c1", "c2"}
    /\ chartsWithDateZoomApplied = [defined |-> TRUE, members |-> {}]

\* C4: after a render that saw a response with a date dimension while a
\* granularity is given, the chart is in the date-zoom tracking set, and so
\* is every chart the set held before.
C4_ChartAdded ==
    (rendered.hasADateDimension /\ Truthy(rendered.granularity)) =>
        /\ chartsWithDateZoomApplied.defined
        /\ rendered.chartUuid \in chartsWithDateZoomApplied.members
        /\ rendered.prev.members \subseteq chartsWithDateZoomApplied.members

C4_Witness ==
    /\ rendered.hasADateDimension
    /\ Truthy(rendered.granularity)
    /\ rendered.chartUuid = "c2"
    /\ rendered.prev = [defined |-> TRUE, members |-> {"c1"}]
    /\ chartsWithDateZoomApplied.members = {"c1", "c2"}

\* The key of the last render carries the granularity of that render.
KeyHasGranularity ==
    /\ Truthy(rendered.granularity)
    /\ rendered.queryKey =
           BaseKey(rendered.chartUuid, dashboardUuid) \o <<rendered.granularity>>

\* C5: the key of a render carries the granularity exactly when the render
\* saw the chart's response, the chart has a date dimension and a granularity
\* is given, and is the base key otherwise; so all requests of a chart without
\* a date dimension share the one cache entry of its base key.
C5_KeyCarriesGranularity ==
    /\ rendered.chartUuid # Undefined =>
         /\ KeyHasGranularity <=>
               (/\ rendered.seen
                /\ chartHasDate[rendered.chartUuid]
                /\ Truthy(rendered.granularity))
         /\ ~KeyHasGranularity =>
               rendered.queryKey = BaseKey(rendered.chartUuid, dashboardUuid)
    /\ \A c \in Charts : \A k \in DOMAIN queryCache :
         (~chartHasDate[c] /\ k[2] = c) => k = BaseKey(c, dashboardUuid)

C5_Witness ==
    /\ ~chartHasDate["c2"]
    /\ rendered.chartUuid = "c2"
    /\ rendered.seen
    /\ rendered.granularity = "MONTH"
    /\ zoomChanges = 2
    /\ rendered.queryKey = BaseKey("c2", dashboardUuid)
    /\ queryCache[rendered.queryKey].state = "success"
    /\ observed["c2"].status = "success"

AddSheetAnswered(kind) ==
    /\ Len(resps) >= 1
    /\ calls[1].api = "addSheet"
    /\ resps[1] = kind

\* C6: an operation during which the provider answered any call with a 401
\* ends with a ForbiddenError.
C6_UnauthorizedIsForbidden ==
    (dpc = "done" /\ \E i \in 1..Len(resps) : resps[i] = "e401") =>
        outcome = "ForbiddenError"

\* C7: once the provider has answered the add-sheet request of createNewTab
\* with a 500, the operation has ended with a GoogleSheetsTransientError (not
\* a ForbiddenError), and it has issued no other call: nothing is read,
\* cleared or written.
C7_TransientOn500 ==
    AddSheetAnswered("e500") =>
        /\ dpc = "done"
        /\ outcome = "GoogleSheetsTransientError"
        /\ calls = <<Call("addSheet", TabTitle(TabToCreate(op)[1]))>>

C7_Witness ==
    /\ AddSheetAnswered("e500")
    /\ op.name = "appendCsvToSheet"
    /\ op.tabName = <<<<"a", "b">>>>
    /\ dpc = "done"
    /\ outcome = "GoogleSheetsTransientError"

\* C8: a client whose configuration lacks the OAuth2 client id or the client
\* secret issues no call to the provider, and every operation it is asked for
\* ends with a MissingConfigError, with empty rows too.
C8_DisabledWithoutCredentials ==
    (config.oauth2ClientId = Undefined \/ config.oauth2ClientSecret = Undefined) =>
        /\ calls = <<>>
        /\ dpc \in {"idle", "done"}
        /\ dpc = "done" => outcome = "MissingConfigError"

C8_Witness ==
    /\ config.oauth2ClientId = "id"
    /\ config.oauth2ClientSecret = Undefined
    /\ op.name = "appendToSheet"
    /\ op.empty
    /\ dpc = "done"
    /\ outcome = "MissingConfigError"

\* C10: when the provider answers the add-sheet request with "a tab of this
\* name already exists", createNewTab returns the tab's title without an
\* error, and appendCsvToSheet goes on to clear that tab and to write the
\* values to that tab.
C10_ExistingTabOverwritten ==
    AddSheetAnswered("e400exists") =>
        LET tabTitle == calls[1].arg
        IN  /\ op.name = "createNewTab" =>
                 /\ dpc = "done" /\ outcome = "ok" /\ returned = <<tabTitle>>
            /\ op.name \in {"appendToSheet", "appendCsvToSheet"} =>
                 /\ Len(calls) >= 2
                 /\ calls[2] = Call("clear", tabTitle)
                 /\ Len(calls) >= 3 =>
                        calls[3] = Call("update", tabTitle \o <<"!", "A", "1">>)
                 /\ dpc # "done" => dpc \in {"clear", "update"}

\* The outcome a values.update answered with kind gives the operation.
UpdateOutcome(kind) ==
    CASE kind = "ok" -> "ok"
      [] kind \in {"e401", "invalid_grant"} -> "ForbiddenError"
      [] OTHER -> "GaxiosError"

\* The i-th call was a step of clearTabName and failed.
ClearStepFailed(i) ==
    /\ i <= Len(resps)
    /\ \/ calls[i].api = "clear" /\ resps[i] # "ok"
       \/ calls[i].api = "get" /\ resps[i] # "ok"

\* C11: when the read of the first sheet's name or the clearing of the range
\* fails, with whatever error, the failure is logged and not thrown: the next
\* call of the operation is the value update, and the operation ends as that
\* update ends.
C11_ClearFailureSwallowed ==
    \A i \in 1..Len(calls) :
        ClearStepFailed(i) =>
            /\ logged = <<"Unable to clear the sheet">>
            /\ Len(calls) = i + 1
            /\ calls[i + 1].api = "update"
            /\ dpc \in {"update", "done"}
            /\ dpc = "done" =>
                 /\ Len(resps) = i + 1
                 /\ outcome = UpdateOutcome(resps[i + 1])

C11_Witness ==
    /\ op.name = "appendCsvToSheet"
    /\ Len(resps) = 3
    /\ calls[2].api = "clear"
    /\ resps[2] = "e401"
    /\ resps[3] = "ok"
    /\ dpc = "done"
    /\ outcome = "ok"

(***************************************************************************)
(* Properties of formatCell.                                               *)
(***************************************************************************)
\* The field of the cell is declared of type date.
DateTyped == isField(cellItem) /\ cellItem.type = "date"

\* The date formatter's result for the cell, with its field's time interval.
DateFormatted ==
    formatDate(cellValue,
               IF cellItem.fieldType = "dimension"
               THEN cellItem.timeInterval ELSE Undefined)

\* The first four rules of the cell format, in their order: arrays, date
\* fields, plain objects, boxed primitives.
FormatRulesAsStated ==
    /\ cellValue.kind = "Array" => cellOutput = Str(Join(cellValue.elems))
    /\ cellValue.kind # "Array" /\ DateTyped => cellOutput = DateFormatted
    /\ cellValue.kind = "object" /\ ~DateTyped =>
         cellOutput = Str(<<"{">> \o cellValue.prim \o <<"}">>)
    /\ cellValue.kind \in {"Number", "Boolean", "String"} /\ ~DateTyped =>
         /\ cellOutput.prim = cellValue.prim
         /\ cellOutput.kind \in {"number", "boolean", "string"}

\* C12 as stated: an array is joined with commas, a value of a date field is
\* date-formatted, a plain object is serialized, a boxed primitive is
\* unwrapped, and any other value is returned unchanged.
C12_FormatByValueAndType ==
    fpc = "returned" =>
        /\ FormatRulesAsStated
        /\ /\ cellValue.kind \notin {"Array", "object", "Number", "Boolean",
                                     "String"}
           /\ ~DateTyped
           => cellOutput = cellValue

\* C12: an array or a Set is joined with commas and a RegExp gives its
\* source, whatever the field; any other value of a date field is
\* date-formatted with the field's time interval; a plain object is
\* serialized, a boxed primitive is unwrapped, and any other value is
\* returned unchanged.
C12_FormatWithSetAndRegExp ==
    fpc = "returned" =>
        /\ cellValue.kind = "Array" => cellOutput = Str(Join(cellValue.elems))
        /\ cellValue.kind = "Set" => cellOutput = Str(Join(cellValue.elems))
        /\ cellValue.kind = "RegExp" => cellOutput = Str(cellValue.prim)
        /\ cellValue.kind \notin {"Array", "Set", "RegExp"} =>
             /\ DateTyped => cellOutput = DateFormatted
             /\ ~DateTyped =>
                  /\ cellValue.kind = "object" =>
                       cellOutput = Str(<<"{">> \o cellValue.prim \o <<"}">>)
                  /\ cellValue.kind \in {"Number", "Boolean", "String"} =>
                       /\ cellOutput.prim = cellValue.prim
                       /\ cellOutput.kind \in {"number", "boolean", "string"}
                  /\ cellValue.kind \notin {"object", "Number", "Boolean",
                                            "String"} =>
                       cellOutput = cellValue

C12_Witness ==
    /\ fpc = "returned"
    /\ cellValue.kind = "Set"
    /\ cellValue.elems = <<"a", "b">>
    /\ DateTyped
    /\ cellOutput = Str(<<"a", ",", "b">>)

(***************************************************************************)
(* More properties of the hooks.                                           *)
(***************************************************************************)
\* The requests the running query function of useQueryResults has issued
\* all go to the one endpoint e.
OnlyEndpoint(e) ==
    /\ httpLog # <<>>
    /\ \A i \in 1..Len(httpLog) : httpLog[i].endpoint = e

\* C13: the query function of useQueryResults takes one retrieval path per
\* request, by priority: chart and version given, the versioned chart
\* results; else chart given, the current chart results; else query given,
\* the paginated execution under the QueryPagination flag and runQuery
\* without it.  With a chart given, no request carries the ad-hoc query.
C13_OnePathByPriority ==
    hook = "useQueryResults" /\ data # <<>> =>
        LET d == data[1]
        IN  /\ Truthy(d.chartUuid) /\ Truthy(d.chartVersionUuid) =>
                 /\ Len(httpLog) = 1
                 /\ OnlyEndpoint("/saved/{chartUuid}/version/{versionUuid}/results")
                 /\ httpLog[1].chartUuid = d.chartUuid
                 /\ httpLog[1].versionUuid = d.chartVersionUuid
            /\ Truthy(d.chartUuid) /\ ~Truthy(d.chartVersionUuid) =>
                 /\ Len(httpLog) = 1
                 /\ OnlyEndpoint("/saved/{chartUuid}/results")
                 /\ httpLog[1].chartUuid = d.chartUuid
            /\ ~Truthy(d.chartUuid) /\ Truthy(d.query) /\ flag =>
                 /\ OnlyEndpoint("/projects/{projectUuid}/query")
                 /\ httpLog[1].query = d.query
            /\ ~Truthy(d.chartUuid) /\ Truthy(d.query) /\ ~flag =>
                 /\ Len(httpLog) = 1
                 /\ OnlyEndpoint("/projects/{projectUuid}/explores/{tableId}/runQuery")
                 /\ httpLog[1].query = d.query
            /\ Truthy(d.chartUuid) =>
                 \A i \in 1..Len(httpLog) : httpLog[i].query = Undefined

C13_Witness ==
    /\ hook = "useQueryResults"
    /\ data # <<>>
    /\ data[1].chartUuid = "chart1"
    /\ data[1].chartVersionUuid = Undefined
    /\ data[1].query = "mq"
    /\ flag
    /\ status = "success"
    /\ Len(httpLog) = 1
    /\ httpLog[1].endpoint = "/saved/{chartUuid}/results"

\* Requests of the running query function no answer has arrived for.
Unanswered == Len(httpLog) - Len(served)

\* C14: the pagination loop is sequential.  The first request carries the
\* query; the i-th request (i > 1) is issued once page i-1 has arrived, and
\* carries the queryUuid of page 1 and the nextPage token of page i-1; at
\* most one request is unanswered at any time; the loop ends at the first
\* page without a nextPage token, so N pages took exactly N requests.
C14_SequentialContinuation ==
    Paginated =>
        /\ Len(httpLog) >= 1
        /\ httpLog[1].query = data[1].query
        /\ httpLog[1].queryUuid = Undefined
        /\ Unanswered \in {0, 1}
        /\ pending = "http" => Unanswered = 1 /\ inflight = <<httpLog[Len(httpLog)]>>
        /\ \A i \in 2..Len(httpLog) :
             /\ i - 1 <= Len(served)
             /\ httpLog[i].query = Undefined
             /\ httpLog[i].queryUuid = served[1].queryUuid
             /\ httpLog[i].page = served[i - 1].nextPage
             /\ served[i - 1].nextPage # 0
        /\ \A i \in 1..Len(served) :
             served[i].nextPage = 0 => i = Len(served) /\ Unanswered = 0
        /\ status = "success" =>
             /\ Unanswered = 0
             /\ served[Len(served)].nextPage = 0

C14_Witness ==
    /\ Paginated
    /\ status = "success"
    /\ Len(served) = 3
    /\ Len(httpLog) = 3
    /\ httpLog[2].page = 2
    /\ httpLog[3].page = 3
    /\ httpLog[3].queryUuid = served[1].queryUuid

(***************************************************************************)
(* Properties of SimpleTable.                                              *)
(***************************************************************************)
\* The render state an element stands for: the pivot branch counts as the
\* pivoted table whether its data has arrived or is still loading.
RenderState ==
    CASE element.component = "LoadingChart" -> "loading"
      [] element.component = "SuboptimalState" -> "error"
      [] element.component = "Box" /\ element.child = "Table" -> "table"
      [] element.component = "Box" /\ element.child # "Table" -> "pivot"
      [] OTHER -> "nothing"

\* The context holds a row-level or a pivot-computation error.
AnyError ==
    \/ Truthy(visualizationContext.error)
    \/ Truthy(visualizationContext.pivotTableData.error)

\* The context holds pivot data, or pivot data is loading.
AnyPivot ==
    \/ visualizationContext.pivotTableData.loading
    \/ visualizationContext.pivotTableData.data # <<>>

\* The priority among the four render states.
RenderedByPriority ==
    /\ RenderState \in {"loading", "error", "pivot", "table"}
    /\ visualizationContext.isLoading => RenderState = "loading"
    /\ ~visualizationContext.isLoading /\ AnyError =>
         /\ RenderState = "error"
         /\ element.description =
              IF Truthy(visualizationContext.error)
              THEN visualizationContext.error
              ELSE visualizationContext.pivotTableData.error
    /\ ~visualizationContext.isLoading /\ ~AnyError /\ AnyPivot =>
         RenderState = "pivot"
    /\ RenderState = "table" <=>
         ~visualizationContext.isLoading /\ ~AnyError /\ ~AnyPivot

\* C15 as stated: for every visualization configuration exactly one of the
\* four render states is rendered, loading before error before pivot before
\* the flat table.
C15_OneRenderState ==
    tpc = "rendered" => RenderedByPriority

\* C15: for every table visualization configuration exactly one of the four
\* render states is rendered, loading before error before pivot before the
\* flat table; for a configuration of another kind nothing is rendered.
C15_OneRenderStateOfTableConfig ==
    tpc = "rendered" =>
        IF visualizationContext.isTable
        THEN RenderedByPriority
        ELSE element.component = "null"

C15_Witness ==
    /\ tpc = "rendered"
    /\ visualizationContext.isTable
    /\ ~visualizationContext.isLoading
    /\ visualizationContext.error = Undefined
    /\ visualizationContext.pivotTableData.error = "pivot error"
    /\ visualizationContext.pivotTableData.data # <<>>
    /\ RenderState = "error"
    /\ element.description = "pivot error"

(***************************************************************************)
(* More properties of the GoogleDriveClient.                               *)
(***************************************************************************)
\* C16: in appendCsvToSheet with a tab name, the tab created by
\* createNewTab, the range cleared before the write and the range written
\* all name the same tab, also for a tab name with ':' in it.
C16_SameTabThroughout ==
    op.name \in {"appendToSheet", "appendCsvToSheet"} /\ op.tabName # <<>> =>
        \A i, j \in 1..Len(calls) :
            calls[i].api = "addSheet" =>
                /\ calls[j].api = "clear" => calls[j].arg = calls[i].arg
                /\ calls[j].api = "update" =>
                     calls[j].arg = calls[i].arg \o <<"!", "A", "1">>

====
